---- MODULE Spec2Model ----
(***************************************************************************)
(* The collectors of plaso/lib/collector.py as a state machine.            *)
(*                                                                         *)
(* A caller builds one collector bound to an output queue and either calls *)
(* Run(), or drives the public methods itself (Collect(), then             *)
(* CollectFromVss() for single stores, then Close()), inside a with block  *)
(* or not.  The evidence (a live directory tree, or an image with a main   *)
(* volume and its snapshot stores) is fixed when the collector is built.   *)
(*                                                                         *)
(* Paths are sequences of tokens, "/" being the separator token, so that   *)
(* os.path.join is computed and not assumed.                               *)
(***************************************************************************)
EXTENDS Integers, Sequences, FiniteSets, TLC

\* ------------------------------------------------------------------ bounds

\* Number of nodes of the live directory tree (node 1 is the path given as
\* the collector's directory; nodes 2, 3, 4 are its entries, nodes 5, 6, 7
\* the entries of node 2, and so on).
NumNodes == 5

\* Largest number of snapshot stores of the image.
MaxStores == 2

\* Largest number of directory opens that fail with an IOError in one run.
MaxOpenFails == 2

\* The interpreter's limit on the depth of the ParseImageDir recursion
\* (sys.getrecursionlimit(), scaled down); it stays above the depth of the
\* walk of every image whose directories form a tree.
RecursionLimit == 6

\* Largest number of CollectFromVss() calls a caller makes by hand.
MaxVssCalls == 2

\* ------------------------------------------------------------- path helpers

SEP == "/"

\* posixpath.join(a, b) for one component b.
\* A mutation of it that forgets the separator.
join_nosep(a, b) ==
    a \o b

join(a, b) ==
    IF b # <<>> /\ Head(b) = SEP THEN b
    ELSE IF a = <<>> \/ a[Len(a)] = SEP THEN a \o b
    ELSE a \o <<SEP>> \o b

\* ------------------------------------------------------ the live file system

Nodes == 1..NumNodes

Kinds == {"dir", "reg", "lnk_reg", "lnk_dir", "lnk_broken", "fifo", "none"}

Parent(n) == (n + 1) \div 3

Name(n) == <<"n" \o ToString(n)>>

DirLike(k) == k \in {"dir", "lnk_dir"}

\* A node exists exactly when the node above it lists entries.
WellFormed(fs) ==
    \A n \in Nodes \ {1} : (fs[n] = "none") <=> ~DirLike(fs[Parent(n)])

LiveFileSystems == {fs \in [Nodes -> Kinds] : WellFormed(fs)}

\* The path the collector is given.
RootDir == <<SEP, "mnt">>

\* The path under which the operating system knows node n.
RECURSIVE PathOf(_)
PathOf(n) ==
    IF n = 1 THEN RootDir ELSE PathOf(Parent(n)) \o <<SEP>> \o Name(n)

VARIABLES
    class,          \* the concrete collector class
    livefs,         \* the live file system: kind of every node
    image,          \* the image: stores, metadata, unreadable entry
    _dir,           \* SimpleFileCollector._dir
    _offset,        \* SimpleImageCollector._offset (sectors)
    _offset_bytes,  \* SimpleImageCollector._offset_bytes
    _vss,           \* SimpleImageCollector._vss
    _vss_stores,    \* SimpleImageCollector._vss_stores
    _hashlist,      \* SimpleImageCollector._hashlist
    _queue,         \* the output queue: items enqueued, Close() calls
    api,            \* how the caller drives the collector
    pc,             \* where the caller / Collect() stands
    exc,            \* exception that left Collect() / CollectFromVss()
    wstack,         \* os.walk generator frames
    fs,             \* store_nr of the open file system handle (-1: volume)
    stack,          \* ParseImageDir call frames
    fails,          \* directory opens that failed so far
    calls,          \* CollectFromVss() calls made by the caller so far
    walk,           \* history: the current walk's directory opens
    reached,        \* history: regular-file entries the walks reached
    opened,         \* history: file system handles Collect() opened
    with_block,     \* the caller is inside "with collector:"
    ext             \* history: the calls made to the collaborators

vars == <<class, livefs, image, _dir, _offset, _offset_bytes, _vss,
          _vss_stores, _hashlist, _queue, api, pc, exc, wstack, fs, stack,
          fails, calls, walk, reached, opened, with_block, ext>>

\* ---------------------------------------------------------- the output queue

\* queue.Queue(item) and queue.Close(), kept as the events the queue received.
Queue(q, item) == Append(q, [op |-> "Queue", item |-> item])

QueueClose(q) == Append(q, [op |-> "Close"])

Items(q) ==
    LET ev == SelectSeq(q, LAMBDA e : e.op = "Queue")
    IN  [i \in 1..Len(ev) |-> ev[i].item]

Closes(q) == Len(SelectSeq(q, LAMBDA e : e.op = "Close"))

\* ------------------------------------------------------------ Collector.Run

\* The two statements of Run(), in the order the code runs them.
\* A mutation that closes the queue before collecting.
RunOrder_closefirst == <<"Close", "Collect">>

RunOrder == <<"Collect", "Close">>

RunStep(q, i) == IF RunOrder[i] = "Close" THEN QueueClose(q) ELSE q

\* The caller calls Run(): its first statement, self.Collect().
Run ==
    /\ pc = "start"
    /\ api' = "Run"
    /\ _queue' = RunStep(_queue, 1)
    /\ pc' = "Collect"
    /\ UNCHANGED <<class, livefs, image, _dir, _offset, _offset_bytes, _vss,
                   _vss_stores, _hashlist, exc, wstack, fs, stack, fails,
                   calls, walk, reached, opened,
                   with_block, ext>>

\* Collect() returned: Run() goes on to self.Close().
RunClose ==
    /\ pc = "collected"
    /\ api = "Run"
    /\ exc = "none"
    /\ _queue' = RunStep(_queue, 2)
    /\ pc' = "done"
    /\ UNCHANGED <<class, livefs, image, _dir, _offset, _offset_bytes, _vss,
                   _vss_stores, _hashlist, api, exc, wstack, fs, stack, fails,
                   calls, walk, reached, opened,
                   with_block, ext>>

\* Collect() raised: Run() has no handler, the exception leaves Run() and
\* self.Close() is not reached.
RunRaise ==
    /\ pc = "collected"
    /\ api = "Run"
    /\ exc # "none"
    /\ pc' = "done"
    /\ UNCHANGED <<class, livefs, image, _dir, _offset, _offset_bytes, _vss,
                   _vss_stores, _hashlist, _queue, api, exc, wstack, fs,
                   stack, fails, calls, walk, reached, opened,
                   with_block, ext>>

\* The caller calls Collect() itself.
CallCollect ==
    /\ pc = "start"
    /\ api' = "Manual"
    /\ pc' = "Collect"
    /\ UNCHANGED <<class, livefs, image, _dir, _offset, _offset_bytes, _vss,
                   _vss_stores, _hashlist, _queue, exc, wstack, fs, stack,
                   fails, calls, walk, reached, opened,
                   with_block, ext>>

\* The caller calls Close() itself, after its last call.
Close ==
    /\ pc = "collected"
    /\ api = "Manual"
    /\ _queue' = QueueClose(_queue)
    /\ pc' = "done"
    /\ UNCHANGED <<class, livefs, image, _dir, _offset, _offset_bytes, _vss,
                   _vss_stores, _hashlist, api, exc, wstack, fs, stack, fails,
                   calls, walk, reached, opened,
                   with_block, ext>>

\* "with collector:" is entered: __enter__ returns the collector.
__enter__ ==
    /\ pc = "start"
    /\ api = "none"
    /\ ~with_block
    /\ with_block' = TRUE
    /\ UNCHANGED <<class, livefs, image, _dir, _offset, _offset_bytes, _vss,
                   _vss_stores, _hashlist, _queue, api, pc, exc, wstack, fs,
                   stack, fails, calls, walk, reached, opened, ext>>

\* The with block is left, after Run(), after Close() or after the last
\* call of its body, by an exception or not: __exit__ calls self.Close().
__exit__ ==
    /\ with_block
    /\ \/ pc = "done"
       \/ pc = "collected" /\ api = "Manual"
    /\ _queue' = QueueClose(_queue)
    /\ with_block' = FALSE
    /\ pc' = "exited"
    /\ UNCHANGED <<class, livefs, image, _dir, _offset, _offset_bytes, _vss,
                   _vss_stores, _hashlist, api, exc, wstack, fs, stack, fails,
                   calls, walk, reached, opened, ext>>

\* ------------------------------------------------------ SimpleFileCollector

\* What the operating system finds at a path.
KindAt(path) ==
    IF \E n \in Nodes : PathOf(n) = path
    THEN livefs[CHOOSE n \in Nodes : PathOf(n) = path]
    ELSE "none"

\* os.path.isfile, os.path.isdir (both follow links) and os.path.islink.
isfile(path) == KindAt(path) \in {"reg", "lnk_reg"}

isdir(path) == KindAt(path) \in {"dir", "lnk_dir"}

islink(path) == KindAt(path) \in {"lnk_reg", "lnk_dir", "lnk_broken"}

\* os.listdir(path): the names of the entries of a directory.
listdir(path) ==
    LET n == CHOOSE m \in Nodes : PathOf(m) = path
        kids == SelectSeq(<<3 * n - 1, 3 * n, 3 * n + 1>>,
                          LAMBDA c : c \in Nodes /\ livefs[c] # "none")
    IN  [i \in 1..Len(kids) |-> Name(kids[i])]

\* The first step of os.walk(top): list top, split the names into
\* directories and the rest; the triple it yields, with the loop positions.
WalkFrame(top) ==
    LET names == listdir(top)
    IN  [top     |-> top,
         dirs    |-> SelectSeq(names, LAMBDA nm : isdir(join(top, nm))),
         nondirs |-> SelectSeq(names, LAMBDA nm : ~isdir(join(top, nm))),
         fi      |-> 1,
         di      |-> 1]

\* The body of the loop over files: what happens to one path.
\* A mutation that forgets the islink test.
FileVerdict_nolink(path) ==
    IF isfile(path) THEN "queue" ELSE "skip"

FileVerdict(path) ==
    IF islink(path) THEN "skip"
    ELSE IF isfile(path) THEN "queue"
    ELSE "skip"

\* ProcessFile(filename, my_queue): the descriptor it enqueues.
ProcessFile(filename) == [type |-> "OS", file_path |-> filename]

\* Collect() up to the loop: a single file, neither file nor directory, or
\* the start of the walk.
FileCollect ==
    /\ pc = "Collect"
    /\ class = "SimpleFileCollector"
    /\ IF isfile(_dir)
       THEN /\ _queue' = Queue(_queue, ProcessFile(_dir))
            /\ pc' = "collected"
            /\ wstack' = wstack
       ELSE IF ~isdir(_dir)
       THEN /\ pc' = "collected"
            /\ UNCHANGED <<_queue, wstack>>
       ELSE /\ wstack' = <<WalkFrame(_dir)>>
            /\ pc' = "Walk"
            /\ _queue' = _queue
    /\ UNCHANGED <<class, livefs, image, _dir, _offset, _offset_bytes, _vss,
                   _vss_stores, _hashlist, api, exc, fs, stack, fails, calls,
                   walk, reached, opened,
                   with_block, ext>>

\* One iteration of "for filename in files".
WalkFile ==
    /\ pc = "Walk"
    /\ wstack # <<>>
    /\ LET fr == wstack[Len(wstack)]
       IN  /\ fr.fi <= Len(fr.nondirs)
           /\ LET path == join(fr.top, fr.nondirs[fr.fi])
              IN  _queue' = IF FileVerdict(path) = "queue"
                            THEN Queue(_queue, ProcessFile(path))
                            ELSE _queue
           /\ wstack' = [wstack EXCEPT ![Len(wstack)].fi = @ + 1]
    /\ UNCHANGED <<class, livefs, image, _dir, _offset, _offset_bytes, _vss,
                   _vss_stores, _hashlist, api, pc, exc, fs, stack, fails,
                   calls, walk, reached, opened,
                   with_block, ext>>

\* os.walk resumed: the next name of dirs; links are not followed.
WalkDir ==
    /\ pc = "Walk"
    /\ wstack # <<>>
    /\ LET fr == wstack[Len(wstack)]
           adv == [wstack EXCEPT ![Len(wstack)].di = @ + 1]
       IN  /\ fr.fi > Len(fr.nondirs)
           /\ fr.di <= Len(fr.dirs)
           /\ LET new_path == join(fr.top, fr.dirs[fr.di])
              IN  wstack' = IF ~islink(new_path)
                            THEN Append(adv, WalkFrame(new_path))
                            ELSE adv
    /\ UNCHANGED <<class, livefs, image, _dir, _offset, _offset_bytes, _vss,
                   _vss_stores, _hashlist, _queue, api, pc, exc, fs, stack,
                   fails, calls, walk, reached, opened,
                   with_block, ext>>

\* os.walk of one directory is exhausted; the outermost one ends Collect().
WalkReturn ==
    /\ pc = "Walk"
    /\ wstack # <<>>
    /\ LET fr == wstack[Len(wstack)]
       IN  /\ fr.fi > Len(fr.nondirs)
           /\ fr.di > Len(fr.dirs)
    /\ wstack' = SubSeq(wstack, 1, Len(wstack) - 1)
    /\ pc' = IF Len(wstack) = 1 THEN "collected" ELSE pc
    /\ UNCHANGED <<class, livefs, image, _dir, _offset, _offset_bytes, _vss,
                   _vss_stores, _hashlist, _queue, api, exc, fs, stack, fails,
                   calls, walk, reached, opened,
                   with_block, ext>>

\* ------------------------------------------------------------------ the image

ImagePath == "image.dd"

\* fs.fs.info.root_inum of every volume of the image.
RootInum == 2

\* TSK_FS_META records of a regular file: timestamps, whole and fraction.
M0 ==
    [atime |-> 12, atime_nano |-> 3, crtime |-> 0, crtime_nano |-> 0,
     mtime |-> 7, mtime_nano |-> 0, ctime |-> 7, ctime_nano |-> 0]

\* The change time differs from M0 in its fraction only.
M1 == [M0 EXCEPT !.ctime_nano = 1]

\* The access time differs from M0: 1.23 against 12.3.
M2 == [M0 EXCEPT !.atime = 1, !.atime_nano = 23]

\* M0 of a file system that records no creation time.
M3 ==
    [atime |-> 12, atime_nano |-> 3,
     mtime |-> 7, mtime_nano |-> 0, ctime |-> 7, ctime_nano |-> 0]

Metas == {M0, M1, M2}

Volumes(n) == -1..(n - 1)

\* One directory entry as pytsk3 hands it out.  err names the attribute
\* whose read raises AttributeError: "name" (f.info.name, line 239), "addr"
\* (f.info.meta.addr, line 253) or "none".
Entry(name, type, addr, meta) ==
    [err |-> "none", named |-> TRUE, flags |-> "ALLOC", has_meta |-> TRUE,
     name |-> name, type |-> type, addr |-> addr, meta |-> meta]

BadEntry(err) == [Entry("x", "REG", 12, M0) EXCEPT !.err = err]

InsertAt(seq, k, e) ==
    SubSeq(seq, 1, k - 1) \o <<e>> \o SubSeq(seq, k, Len(seq))

\* fs.fs.open_dir(inode) of volume v (-1: the main volume): the entries of
\* the directory.  The timestamps of /a (inode 5) differ from volume to
\* volume; /d/b and /g/h are two names of one file (inode 7), which never
\* changes but whose volume records a creation time and whose snapshots
\* record none.  The other entries are those the walk is to pass over: the
\* orphan files pseudo-directory, ".", "..", an unallocated file and an
\* unallocated directory, a link, an entry without name and one without
\* metadata.  In a corrupt image an entry c of /g refers to the inode of a
\* directory above it (img.cycle).
Listing(img, v, inode) ==
    LET root == <<Entry("a", "REG", 5, img.times5[v]),
                  Entry("d", "DIR", 6, M0),
                  Entry("g", "DIR", 9, M0),
                  Entry("$OrphanFiles", "DIR", 10, M0)>>
        g == <<Entry("h", "REG", 7, IF v < 0 THEN M0 ELSE M3),
               Entry("s", "LNK", 11, M0),
               [Entry("q", "REG", 14, M0) EXCEPT !.named = FALSE],
               [Entry("w", "DIR", 15, M0) EXCEPT !.flags = "UNALLOC"],
               [Entry("m", "REG", 16, M0) EXCEPT !.has_meta = FALSE]>>
    IN  CASE inode = RootInum ->
               IF img.badPos = 0 THEN root
               ELSE InsertAt(root, img.badPos, BadEntry(img.badErr))
          [] inode = 6 ->
               <<Entry(".", "DIR", 6, M0),
                 Entry("..", "DIR", RootInum, M0),
                 Entry("b", "REG", 7, IF v < 0 THEN M0 ELSE M3),
                 [Entry("u", "REG", 8, M0) EXCEPT !.flags = "UNALLOC"]>>
          [] inode = 9 ->
               IF img.cycle = 0 THEN g
               ELSE Append(g, Entry("c", "DIR", img.cycle, M0))
          [] inode = 10 -> <<Entry("o", "REG", 13, M0)>>
          [] inode = 15 -> <<Entry("p", "REG", 17, M0)>>
          [] OTHER -> <<>>

\* ------------------------------------------------------ SimpleImageCollector

SECTOR_SIZE == 512

\* offset = self._offset_bytes or self._offset * self.SECTOR_SIZE
\* A mutation that lets the sector offset win over the byte offset.
Offset_sectorfirst(offset_bytes, offset) ==
    IF offset # 0 THEN offset * SECTOR_SIZE ELSE offset_bytes

Offset(offset_bytes, offset) ==
    IF offset_bytes # 0 THEN offset_bytes ELSE offset * SECTOR_SIZE

\* GetVssStores(offset), vss_numbers being vss.GetVssStoreCount(image, offset).
GetVssStores(vss_numbers) ==
    IF ~_vss THEN <<>>
    ELSE IF _vss_stores # <<>>
    THEN SelectSeq(_vss_stores, LAMBDA nr : nr > 0 /\ nr <= vss_numbers)
    ELSE [i \in 1..vss_numbers |-> i - 1]

\* getattr(meta, name, 0)
GetAttr(meta, name) == IF name \in DOMAIN meta THEN meta[name] ELSE 0

\* '<name>:{0}.{1}'.format(getattr(meta, name, 0), getattr(meta, name_nano, 0))
\* A mutation that drops the point between the two numbers.
TimeString_nopoint(meta, name) ==
    name \o ":" \o ToString(GetAttr(meta, name))
         \o ToString(GetAttr(meta, name \o "_nano"))

TimeString(meta, name) ==
    name \o ":" \o ToString(GetAttr(meta, name)) \o "."
         \o ToString(GetAttr(meta, name \o "_nano"))

\* CalculateNTFSTimeHash(meta).  The MD5 digest is represented by the text
\* it digests (MD5 collisions are not modelled).
\* A mutation that leaves the change time out of the digest.
CalculateNTFSTimeHash_noctime(meta) ==
    TimeString(meta, "atime") \o TimeString(meta, "crtime")
        \o TimeString(meta, "mtime")

CalculateNTFSTimeHash(meta) ==
    TimeString(meta, "atime") \o TimeString(meta, "crtime")
        \o TimeString(meta, "mtime") \o TimeString(meta, "ctime")

\* "if self._vss:" of ParseImageDir: whether the walk of the file system
\* handle f goes through the hash table.
\* A mutation that tests the handle (a snapshot store) instead.
DedupApplies_storeonly(f) == _vss /\ f.store_nr >= 0

DedupApplies(f) == _vss

\* inode_addr in self._hashlist and hash_value in self._hashlist[inode_addr]
\* A mutation that compares with the hash recorded last only.
Seen_lastonly(hl, inode_addr, hash_value) ==
    /\ inode_addr \in DOMAIN hl
    /\ hl[inode_addr][Len(hl[inode_addr])] = hash_value

Seen(hl, inode_addr, hash_value) ==
    /\ inode_addr \in DOMAIN hl
    /\ \E i \in 1..Len(hl[inode_addr]) : hl[inode_addr][i] = hash_value

\* self._hashlist.setdefault(inode_addr, []).append(hash_value)
\* A mutation that keeps the last hash of an inode only.
Record_overwrite(hl, inode_addr, hash_value) ==
    IF inode_addr \in DOMAIN hl
    THEN [hl EXCEPT ![inode_addr] = <<hash_value>>]
    ELSE hl @@ (inode_addr :> <<hash_value>>)

Record(hl, inode_addr, hash_value) ==
    IF inode_addr \in DOMAIN hl
    THEN [hl EXCEPT ![inode_addr] = Append(@, hash_value)]
    ELSE hl @@ (inode_addr :> <<hash_value>>)

\* A local variable that no statement has assigned yet.
Unbound == "<unbound>"

\* The try block of the loop over a directory and the tests after it: what
\* becomes of entry f, name_str being the local variable as the previous
\* entries of this directory left it.
\* A mutation that forgets the test of the allocation flag.
EntryOutcome_noflags(f, name_str) ==
    IF f.err = "name"
    THEN IF name_str = Unbound THEN "UnboundLocalError" ELSE "skip"
    ELSE IF ~f.named THEN "skip"
    ELSE IF ~f.has_meta THEN "skip"
    ELSE IF f.err = "addr" THEN "skip"
    ELSE IF f.name \in {"$OrphanFiles", ".", ".."} THEN "skip"
    ELSE IF f.type = "DIR" THEN "dir"
    ELSE IF f.type = "REG" THEN "reg"
    ELSE "skip"

EntryOutcome(f, name_str) ==
    IF f.err = "name"
    THEN IF name_str = Unbound THEN "UnboundLocalError" ELSE "skip"
    ELSE IF ~f.named THEN "skip"
    ELSE IF f.flags = "UNALLOC" THEN "skip"
    ELSE IF ~f.has_meta THEN "skip"
    ELSE IF f.err = "addr" THEN "skip"
    ELSE IF f.name \in {"$OrphanFiles", ".", ".."} THEN "skip"
    ELSE IF f.type = "DIR" THEN "dir"
    ELSE IF f.type = "REG" THEN "reg"
    ELSE "skip"

\* name_str after the try block ran on entry f.
NameStrAfter(f, name_str) ==
    IF f.err # "name" /\ f.named /\ f.flags # "UNALLOC" /\ f.has_meta
    THEN f.name
    ELSE name_str

\* The EventPathSpec of a regular file found on file system handle f.
PathSpec(f, inode_addr, file_path) ==
    IF f.store_nr >= 0
    THEN [type |-> "VSS", vss_store_number |-> f.store_nr,
          container_path |-> f.path, image_offset |-> f.offset,
          image_inode |-> inode_addr, file_path |-> file_path]
    ELSE [type |-> "TSK",
          container_path |-> f.path, image_offset |-> f.offset,
          image_inode |-> inode_addr, file_path |-> file_path]

\* What ParseImageDir does on an IOError of open_dir.
\* A mutation that gives up at the first failure.
OnOpenError_noretry(retry) == "return"

OnOpenError(retry) == IF ~retry THEN "retry" ELSE "return"

\* The frame of a call ParseImageDir(fs, cur_inode, path, retry).
Frame(cur_inode, path, retry) ==
    [cur_inode |-> cur_inode, path |-> path, retry |-> retry,
     stage |-> "open", directory |-> <<>>, i |-> 1, name_str |-> Unbound,
     directories |-> <<>>, j |-> 1]

NoFs == [path |-> "", offset |-> 0, store_nr |-> -1]

\* History of one walk: the failed opens of every directory, the
\* directories whose open succeeded, and the paths of the directories
\* ParseImageDir was called on.
NewWalk == [nfail |-> <<>>, listed |-> {}, paths |-> {}]

Count(nfail, inode) == IF inode \in DOMAIN nfail THEN nfail[inode] ELSE 0

Bump(nfail, inode) ==
    IF inode \in DOMAIN nfail
    THEN [nfail EXCEPT ![inode] = @ + 1]
    ELSE nfail @@ (inode :> 1)

\* A call to a collaborator (fscache.Open, vss.GetVssStoreCount, the
\* preprocess collectors), with the offset handed to it and the number of
\* queue events that came before it.
Call(name, offset, store_nr) ==
    [call |-> name, offset |-> offset, store_nr |-> store_nr,
     at |-> Len(_queue)]

\* fscache.Open(image, offset[, store_nr]) raises UnableToOpenFilesystem on
\* the volumes of the image that hold no file system it can read.
Opens(store_nr) == store_nr \notin image.unreadable

\* The except clause of Collect(), lines 179-181.
\* A mutation without the clause: the error leaves Collect().
OnUnableToOpenFilesystem_raise == "raise"

OnUnableToOpenFilesystem == "return"

\* The statements of Collect() that follow the creation of the hash table,
\* in the order the code runs them.
\* A mutation that looks for the snapshot stores before the walk.
CollectOrder_vssfirst == <<"GetVssStores", "ParseImageDir">>

CollectOrder == <<"ParseImageDir", "GetVssStores">>

\* GetVssStores(offset) asks vss.GetVssStoreCount(image, offset) when
\* snapshot collection is on.
CollectStep(log, i, offset) ==
    IF CollectOrder[i] = "GetVssStores" /\ _vss
    THEN Append(log, Call("GetVssStoreCount", offset, -1))
    ELSE log

\* Collect() up to the walk of the main volume: the offset, the fresh hash
\* table, the handle of the main volume and the call of ParseImageDir; an
\* UnableToOpenFilesystem ends Collect().
ImageCollect ==
    /\ pc = "Collect"
    /\ class = "SimpleImageCollector"
    /\ _hashlist' = IF _vss THEN <<>> ELSE _hashlist
    /\ LET offset == Offset(_offset_bytes, _offset)
       IN  /\ ext' = Append(CollectStep(ext, 1, offset),
                            Call("Open", offset, -1))
           /\ IF Opens(-1)
              THEN /\ fs' = [path |-> ImagePath, offset |-> offset,
                             store_nr |-> -1]
                   /\ opened' = Append(opened, -1)
                   /\ stack' = <<Frame(RootInum, <<SEP>>, FALSE)>>
                   /\ pc' = "MainWalk"
                   /\ exc' = exc
              ELSE /\ pc' = "collected"
                   /\ exc' = IF OnUnableToOpenFilesystem = "return"
                             THEN exc
                             ELSE "UnableToOpenFilesystem"
                   /\ UNCHANGED <<fs, opened, stack>>
    /\ walk' = NewWalk
    /\ UNCHANGED <<class, livefs, image, _dir, _offset, _offset_bytes, _vss,
                   _vss_stores, _queue, api, wstack, fails, calls, reached,
                   with_block>>

Walking == pc \in {"MainWalk", "VssWalk"} /\ stack # <<>>

Top == stack[Len(stack)]

\* A further call of ParseImageDir would pass the interpreter's limit:
\* it raises RuntimeError (maximum recursion depth exceeded), which no
\* frame catches.
TooDeep == Len(stack) >= RecursionLimit

\* ParseImageDir, lines 226-234: open the directory; on an IOError call
\* ParseImageDir again with retry set (once), then return.
ParseImageDirOpen ==
    /\ Walking
    /\ Top.stage = "open"
    /\ \E ok \in BOOLEAN :
         /\ ~ok => (image.flaky /\ fails < MaxOpenFails)
         /\ IF ok
            THEN /\ stack' = [stack EXCEPT
                       ![Len(stack)].stage = "iter",
                       ![Len(stack)].directory =
                           Listing(image, fs.store_nr, Top.cur_inode)]
                 /\ walk' = [walk EXCEPT
                       !.listed = @ \cup {Top.cur_inode},
                       !.paths = @ \cup {Top.path}]
                 /\ fails' = fails
                 /\ UNCHANGED <<pc, exc>>
            ELSE /\ fails' = fails + 1
                 /\ walk' = [walk EXCEPT
                       !.nfail = Bump(@, Top.cur_inode),
                       !.paths = @ \cup {Top.path}]
                 /\ IF OnOpenError(Top.retry) = "retry" /\ TooDeep
                    THEN /\ stack' = <<>>
                         /\ exc' = "RuntimeError"
                         /\ pc' = "collected"
                    ELSE /\ stack' =
                              IF OnOpenError(Top.retry) = "retry"
                              THEN Append(
                                 [stack EXCEPT ![Len(stack)].stage = "ret"],
                                 Frame(Top.cur_inode, Top.path, TRUE))
                              ELSE [stack EXCEPT ![Len(stack)].stage = "ret"]
                         /\ UNCHANGED <<pc, exc>>
    /\ UNCHANGED <<class, livefs, image, _dir, _offset, _offset_bytes, _vss,
                   _vss_stores, _hashlist, _queue, api, wstack, fs, calls,
                   reached, opened, with_block, ext>>

\* ParseImageDir, lines 237-294: one entry of the directory.
ParseImageDirEntry ==
    /\ Walking
    /\ Top.stage = "iter"
    /\ Top.i <= Len(Top.directory)
    /\ LET f == Top.directory[Top.i]
           out == EntryOutcome(f, Top.name_str)
           next == [stack EXCEPT
                      ![Len(stack)].i = @ + 1,
                      ![Len(stack)].name_str = NameStrAfter(f, @)]
           file_path == join(Top.path, <<f.name>>)
           hash_value == CalculateNTFSTimeHash(f.meta)
           dup == DedupApplies(fs) /\ Seen(_hashlist, f.addr, hash_value)
       IN  CASE out = "UnboundLocalError" ->
                  /\ stack' = <<>>
                  /\ exc' = "UnboundLocalError"
                  /\ pc' = "collected"
                  /\ UNCHANGED <<_hashlist, _queue, reached>>
             [] out = "skip" ->
                  /\ stack' = next
                  /\ UNCHANGED <<_hashlist, _queue, reached, exc, pc>>
             [] out = "dir" ->
                  /\ stack' = [next EXCEPT ![Len(stack)].directories =
                                   Append(@, <<f.addr, file_path>>)]
                  /\ UNCHANGED <<_hashlist, _queue, reached, exc, pc>>
             [] out = "reg" ->
                  /\ stack' = next
                  /\ _hashlist' = IF DedupApplies(fs) /\ ~dup
                                  THEN Record(_hashlist, f.addr, hash_value)
                                  ELSE _hashlist
                  /\ _queue' = IF dup THEN _queue
                               ELSE Queue(_queue, PathSpec(fs, f.addr, file_path))
                  /\ reached' = Append(reached,
                                   [walkno |-> calls,
                                    store |-> fs.store_nr, inode |-> f.addr,
                                    meta |-> f.meta, path |-> file_path,
                                    queued |-> ~dup])
                  /\ UNCHANGED <<exc, pc>>
    /\ UNCHANGED <<class, livefs, image, _dir, _offset, _offset_bytes, _vss,
                   _vss_stores, api, wstack, fs, fails, calls, walk, opened,
                   with_block, ext>>

\* ParseImageDir, lines 296-297: the next recorded subdirectory.
ParseImageDirDescend ==
    /\ Walking
    /\ Top.stage = "iter"
    /\ Top.i > Len(Top.directory)
    /\ Top.j <= Len(Top.directories)
    /\ LET d == Top.directories[Top.j]
       IN  IF TooDeep
           THEN /\ stack' = <<>>
                /\ exc' = "RuntimeError"
                /\ pc' = "collected"
           ELSE /\ stack' = Append([stack EXCEPT ![Len(stack)].j = @ + 1],
                                   Frame(d[1], d[2], FALSE))
                /\ UNCHANGED <<pc, exc>>
    /\ UNCHANGED <<class, livefs, image, _dir, _offset, _offset_bytes, _vss,
                   _vss_stores, _hashlist, _queue, api, wstack, fs, fails,
                   calls, walk, reached, opened, with_block, ext>>

\* ParseImageDir returns; the outermost call returns to Collect() (main
\* volume) or ends CollectFromVss() (snapshot store).
ParseImageDirReturn ==
    /\ Walking
    /\ \/ Top.stage = "ret"
       \/ /\ Top.stage = "iter"
          /\ Top.i > Len(Top.directory)
          /\ Top.j > Len(Top.directories)
    /\ stack' = SubSeq(stack, 1, Len(stack) - 1)
    /\ pc' = IF Len(stack) > 1 THEN pc
             ELSE IF pc = "MainWalk" THEN "GetVss" ELSE "collected"
    /\ UNCHANGED <<class, livefs, image, _dir, _offset, _offset_bytes, _vss,
                   _vss_stores, _hashlist, _queue, api, exc, wstack, fs,
                   fails, calls, walk, reached, opened,
                   with_block, ext>>

\* Collect(), lines 183-191: the loop over GetVssStores(offset).  Its first
\* statement evaluates vss_numbers, a name Collect() never binds (it is a
\* local of GetVssStores): the first iteration raises NameError, so the
\* loop ends normally only over an empty list.
CollectVss ==
    /\ pc = "GetVss"
    /\ ext' = CollectStep(ext, 2, Offset(_offset_bytes, _offset))
    /\ exc' = IF GetVssStores(image.N) = <<>> THEN "none" ELSE "NameError"
    /\ pc' = "collected"
    /\ UNCHANGED <<class, livefs, image, _dir, _offset, _offset_bytes, _vss,
                   _vss_stores, _hashlist, _queue, api, wstack, fs, stack,
                   fails, calls, walk, reached, opened, with_block>>

\* The caller of a collector built with parse_vss calls
\* CollectFromVss(image, store_nr, offset) for a store of the image: the
\* handle of the store and the call of ParseImageDir; an
\* UnableToOpenFilesystem is logged and ends the call.
CollectFromVss ==
    /\ pc = "collected"
    /\ api = "Manual"
    /\ class = "SimpleImageCollector"
    /\ _vss
    /\ exc # "UnboundLocalError"
    /\ calls < MaxVssCalls
    /\ \E store_nr \in 0..(image.N - 1) :
         LET offset == Offset(_offset_bytes, _offset)
         IN  /\ ext' = Append(ext, Call("Open", offset, store_nr))
             /\ IF Opens(store_nr)
                THEN /\ fs' = [path |-> ImagePath, offset |-> offset,
                               store_nr |-> store_nr]
                     /\ stack' = <<Frame(RootInum, <<SEP>>, FALSE)>>
                     /\ pc' = "VssWalk"
                ELSE UNCHANGED <<fs, stack, pc>>
    /\ calls' = calls + 1
    /\ exc' = "none"
    /\ walk' = NewWalk
    /\ UNCHANGED <<class, livefs, image, _dir, _offset, _offset_bytes, _vss,
                   _vss_stores, _hashlist, _queue, api, wstack, fails,
                   reached, opened, with_block>>

\* --------------------------------------------------- TargetedImageCollector

\* preprocess.TSKFileCollector(pre_obj, image, offset) and
\* preprocess.VSSFileCollector(pre_obj, image, store_nr, offset).
TSKFileCollector(image_path, offset) ==
    [path |-> image_path, offset |-> offset, store_nr |-> -1]

VSSFileCollector(image_path, store_nr, offset) ==
    [path |-> image_path, offset |-> offset, store_nr |-> store_nr]

\* collector_filter.CollectionFilter(collector, file_filter).GetPathSpecs():
\* the descriptors of the files the filter matches, in the filter's order.
\* The filter matches /a, described for the volume the collector reads,
\* and yields one descriptor that is the same for every volume.
GetPathSpecs(collector) ==
    <<PathSpec(collector, 5, <<SEP, "a">>),
      [type |-> "TSK", container_path |-> collector.path,
       image_offset |-> collector.offset, image_inode |-> 7,
       file_path |-> <<SEP, "d", SEP, "b">>]>>

\* for pathspec_string in ...: self._queue.Queue(pathspec_string)
RECURSIVE QueueAll(_, _)
QueueAll(q, pathspecs) ==
    IF pathspecs = <<>> THEN q
    ELSE QueueAll(Queue(q, Head(pathspecs)), Tail(pathspecs))

\* TargetedImageCollector.Collect(), lines 383-390: the offset, the
\* collector of the main volume, and its filter output enqueued.
TargetedImageCollect ==
    /\ pc = "Collect"
    /\ class = "TargetedImageCollector"
    /\ LET offset == Offset(_offset_bytes, _offset)
           pre_collector == TSKFileCollector(ImagePath, offset)
       IN  /\ ext' = Append(ext, Call("TSKFileCollector", offset, -1))
           /\ _queue' = QueueAll(_queue, GetPathSpecs(pre_collector))
    /\ pc' = "TargetedVss"
    /\ UNCHANGED <<class, livefs, image, _dir, _offset, _offset_bytes, _vss,
                   _vss_stores, _hashlist, api, exc, wstack, fs, stack, fails,
                   calls, walk, reached, opened, with_block>>

\* TargetedImageCollector.Collect(), lines 392-405: the loop over
\* GetVssStores(offset).  Its first statement evaluates vss_numbers, which
\* Collect() never binds: the first iteration raises NameError before the
\* collector of the store is made; the finally clause only logs.
TargetedImageVss ==
    /\ pc = "TargetedVss"
    /\ IF _vss
       THEN /\ ext' = Append(ext, Call("GetVssStoreCount",
                                       Offset(_offset_bytes, _offset), -1))
            /\ exc' = IF GetVssStores(image.N) = <<>>
                      THEN "none" ELSE "NameError"
       ELSE UNCHANGED <<ext, exc>>
    /\ pc' = "collected"
    /\ UNCHANGED <<class, livefs, image, _dir, _offset, _offset_bytes, _vss,
                   _vss_stores, _hashlist, _queue, api, wstack, fs, stack,
                   fails, calls, walk, reached, opened, with_block>>

\* ------------------------------------------------------------ specification

StoreLists == {<<>>, <<0, 2, 5>>, <<2, 1>>, <<1, 1>>}

\* Sector offset and byte offset the collector is built with.
OffsetPairs == {<<63, 0>>, <<0, 0>>, <<63, 1048576>>, <<0, 4096>>}

SameTimes(n) == [v \in Volumes(n) |-> M0]

\* An image: its number of stores, the timestamps of inode 5 in every
\* volume, the place and kind of an unreadable entry of the root directory
\* (0: none), and whether its directories may fail to open; the volumes
\* that cannot be opened and the inode a corrupt entry refers to (0: none).
Image(n, t, p, e, fl) ==
    [N |-> n, times5 |-> t, badPos |-> p, badErr |-> e, flaky |-> fl,
     unreadable |-> {}, cycle |-> 0]

\* The images a run is checked on: the timestamps of inode 5 vary from
\* volume to volume; or the image is damaged (an unreadable entry, opens
\* that fail); or an explicit list of stores is configured; or some of its
\* volumes cannot be opened; or its directories form a cycle; or the
\* volume lies at another offset.  The targeted collector runs on an intact
\* image.
Init ==
    /\ class \in {"SimpleFileCollector", "SimpleImageCollector",
                  "TargetedImageCollector"}
    /\ \E o \in OffsetPairs :
         /\ _offset = o[1]
         /\ _offset_bytes = o[2]
         /\ CASE class = "SimpleFileCollector" ->
                /\ livefs \in LiveFileSystems
                /\ image = Image(0, SameTimes(0), 0, "none", FALSE)
                /\ _vss = FALSE
                /\ _vss_stores = <<>>
                /\ o = <<63, 0>>
           [] class = "TargetedImageCollector" ->
                /\ livefs = [n \in Nodes |-> "none"]
                /\ \E n \in 0..MaxStores :
                      image = Image(n, SameTimes(n), 0, "none", FALSE)
                /\ _vss \in BOOLEAN
                /\ _vss_stores \in StoreLists
           [] class = "SimpleImageCollector" ->
                /\ livefs = [n \in Nodes |-> "none"]
                /\ \/ /\ \E n \in 0..MaxStores :
                            image \in {Image(n, t, 0, "none", FALSE) :
                                          t \in [Volumes(n) -> Metas]}
                      /\ _vss = TRUE
                      /\ _vss_stores = <<>>
                      /\ o = <<63, 0>>
                   \/ /\ \E n \in 0..1 :
                            image \in {Image(n, SameTimes(n), p, e, TRUE) :
                                          p \in 0..4, e \in {"name", "addr"}}
                      /\ _vss \in BOOLEAN
                      /\ _vss_stores = <<>>
                      /\ o = <<63, 0>>
                   \/ /\ \E n \in 0..MaxStores :
                            image = Image(n, SameTimes(n), 0, "none", FALSE)
                      /\ _vss \in BOOLEAN
                      /\ _vss_stores \in StoreLists
                      /\ o = <<63, 0>>
                   \/ /\ \E n \in 0..MaxStores :
                            image \in
                              {[Image(n, SameTimes(n), 0, "none", FALSE)
                                   EXCEPT !.unreadable = u] :
                                  u \in SUBSET Volumes(n) \ {{}}}
                      /\ _vss = TRUE
                      /\ _vss_stores = <<>>
                      /\ o = <<63, 0>>
                   \/ /\ image \in
                              {[Image(0, SameTimes(0), 0, "none", FALSE)
                                   EXCEPT !.cycle = c] : c \in {RootInum, 9}}
                      /\ _vss \in BOOLEAN
                      /\ _vss_stores = <<>>
                      /\ o = <<63, 0>>
                   \/ /\ image = Image(1, [v \in Volumes(1) |->
                                               IF v < 0 THEN M0 ELSE M1],
                                        0, "none", FALSE)
                      /\ _vss = TRUE
                      /\ _vss_stores = <<>>
    /\ _dir = RootDir
    /\ _hashlist = <<>>
    /\ _queue = <<>>
    /\ api = "none"
    /\ pc = "start"
    /\ exc = "none"
    /\ wstack = <<>>
    /\ fs = NoFs
    /\ stack = <<>>
    /\ fails = 0
    /\ calls = 0
    /\ walk = NewWalk
    /\ reached = <<>>
    /\ opened = <<>>
    /\ with_block = FALSE
    /\ ext = <<>>

Next ==
    \/ Run
    \/ RunClose
    \/ RunRaise
    \/ CallCollect
    \/ Close
    \/ __enter__
    \/ __exit__
    \/ FileCollect
    \/ WalkFile
    \/ WalkDir
    \/ WalkReturn
    \/ ImageCollect
    \/ ParseImageDirOpen
    \/ ParseImageDirEntry
    \/ ParseImageDirDescend
    \/ ParseImageDirReturn
    \/ CollectVss
    \/ CollectFromVss
    \/ TargetedImageCollect
    \/ TargetedImageVss

Spec == Init /\ [][Next]_vars

\* ------------------------------------------------------- the walks, whole

\* The four timestamp pairs of a metadata record, absent fields being 0.
TimePairs(meta) ==
    <<GetAttr(meta, "atime"), GetAttr(meta, "atime_nano"),
      GetAttr(meta, "crtime"), GetAttr(meta, "crtime_nano"),
      GetAttr(meta, "mtime"), GetAttr(meta, "mtime_nano"),
      GetAttr(meta, "ctime"), GetAttr(meta, "ctime_nano")>>

\* ParseImageDir(fs, inode, path) as one step, for a walk in which the
\* directories of the set abandoned cannot be opened and every other open
\* succeeds at once: the regular-file entries it reaches, in order.
RECURSIVE ParseImageDirAll(_, _, _, _, _), ParseImageDirSubs(_, _, _, _, _, _)
ParseImageDirAll(img, v, inode, path, abandoned) ==
    IF inode \in abandoned THEN <<>>
    ELSE LET dir == Listing(img, v, inode)
             pos == [i \in 1..Len(dir) |-> i]
             regs == SelectSeq(pos,
                        LAMBDA i : EntryOutcome(dir[i], dir[i].name) = "reg")
             subs == SelectSeq(pos,
                        LAMBDA i : EntryOutcome(dir[i], dir[i].name) = "dir")
         IN  [k \in 1..Len(regs) |->
                 [inode |-> dir[regs[k]].addr, meta |-> dir[regs[k]].meta,
                  path |-> join(path, <<dir[regs[k]].name>>)]]
             \o ParseImageDirSubs(img, v, dir, subs, path, abandoned)

ParseImageDirSubs(img, v, dir, subs, path, abandoned) ==
    IF subs = <<>> THEN <<>>
    ELSE ParseImageDirAll(img, v, dir[Head(subs)].addr,
                          join(path, <<dir[Head(subs)].name>>), abandoned)
         \o ParseImageDirSubs(img, v, dir, Tail(subs), path, abandoned)

\* The descriptors a walk of file system handle f enqueues for the entries
\* es when it starts from an empty hash table.
Enqueued(f, es) ==
    LET pos == [i \in 1..Len(es) |-> i]
        kept == SelectSeq(pos, LAMBDA k :
                    ~(_vss /\ \E m \in 1..(k - 1) :
                                 /\ es[m].inode = es[k].inode
                                 /\ TimePairs(es[m].meta) = TimePairs(es[k].meta)))
    IN  [k \in 1..Len(kept) |->
            PathSpec(f, es[kept[k]].inode, es[kept[k]].path)]

\* The directories of the current walk whose open failed twice.
Abandoned == {d \in DOMAIN walk.nfail : walk.nfail[d] >= 2}

\* What the walk of the main volume enqueues when no open fails, except
\* those of the abandoned directories.
MainWalkItems ==
    Enqueued([path |-> ImagePath, offset |-> Offset(_offset_bytes, _offset),
              store_nr |-> -1],
             ParseImageDirAll(image, -1, RootInum, <<SEP>>, Abandoned))

\* The nodes of the live tree os.walk comes to: the root, and the entries
\* of the directories it lists (it follows no link below the root).
RECURSIVE Listed(_)
Listed(n) ==
    IF n = 1 THEN TRUE
    ELSE /\ Listed(Parent(n))
         /\ IF Parent(n) = 1 THEN DirLike(livefs[1])
            ELSE livefs[Parent(n)] = "dir"

\* ------------------------------------------------------------------- claims

Range(seq) == {seq[i] : i \in 1..Len(seq)}

NoDuplicates(seq) == \A i, j \in 1..Len(seq) : seq[i] = seq[j] => i = j

\* Run() is over: it returned or the exception of Collect() left it.
RunOver == api = "Run" /\ pc = "done"

\* Collect() is over and the caller has made no further call.
CollectOver == pc \in {"collected", "done"} /\ calls = 0

ImageRun == class = "SimpleImageCollector"

FileRun == class = "SimpleFileCollector"

\* The snapshot stores Collect() opened, in the order it opened them.
StoresOpened == SelectSeq(opened, LAMBDA nr : nr >= 0)

SameFile(e1, e2) ==
    e1.inode = e2.inode /\ TimePairs(e1.meta) = TimePairs(e2.meta)

\* Entry k of the history was reached after an entry of the same inode with
\* the same four timestamp pairs.
SeenBefore(k) == \E m \in 1..(k - 1) : SameFile(reached[m], reached[k])

\* C1 (as claimed): whenever Run() is over, whether Collect() returned or
\* raised, Run() has closed the queue exactly once.
C1_RunAlwaysCloses ==
    RunOver => Closes(_queue) = 1

\* C2: in a Run(), no descriptor is enqueued after the queue was closed:
\* every Queue event precedes every Close event.
C2_CloseAfterLastQueue ==
    api = "Run" =>
        \A i, j \in 1..Len(_queue) :
            (_queue[i].op = "Close" /\ _queue[j].op = "Queue") => j < i

C2_Witness ==
    /\ RunOver
    /\ Closes(_queue) = 1
    /\ Len(Items(_queue)) >= 2

\* C3 (as claimed): with snapshot collection enabled and no explicit store
\* list, Collect() on a volume with N stores opens the stores 0, ..., N-1,
\* each once and in ascending order, and returns normally.
C3_WalksEveryStore ==
    (ImageRun /\ CollectOver /\ _vss /\ _vss_stores = <<>>
        /\ image.badPos = 0 /\ fails = 0)
    => /\ exc = "none"
       /\ StoresOpened = [i \in 1..image.N |-> i - 1]

\* C4 (as claimed): with snapshot collection enabled and a non-empty
\* explicit store list S, the stores Collect() traverses are exactly the
\* members nr of S with 1 <= nr <= N.
C4_WalksListedStores ==
    (ImageRun /\ CollectOver /\ _vss /\ _vss_stores # <<>>
        /\ image.badPos = 0 /\ fails = 0)
    => Range(StoresOpened) =
           {nr \in Range(_vss_stores) : 1 <= nr /\ nr <= image.N}

C7_RetryYieldsSameDescriptors ==
    (ImageRun /\ pc = "GetVss") => Items(_queue) = MainWalkItems

C7_Witness ==
    /\ ImageRun
    /\ pc = "GetVss"
    /\ Count(walk.nfail, 6) = 1
    /\ 6 \in walk.listed
    /\ \E i \in 1..Len(Items(_queue)) : Items(_queue)[i].image_inode = 7

\* C8: on a directory, SimpleFileCollector.Collect() enqueues one
\* descriptor for every regular file of the tree that is no symbolic link,
\* and nothing else; each has type OS and the path of the file, the join
\* of its directory and its name.
C8_OneDescriptorPerRegularFile ==
    (FileRun /\ CollectOver /\ isdir(_dir))
    => /\ NoDuplicates(Items(_queue))
       /\ Range(Items(_queue)) =
              {[type |-> "OS", file_path |-> PathOf(n)] :
                  n \in {m \in Nodes : livefs[m] = "reg" /\ Listed(m)}}

\* A directory holding a file, a directory with a file in it and a broken
\* link: Run() closes the queue after two descriptors.
C8_Witness ==
    /\ FileRun
    /\ RunOver
    /\ livefs[1] = "dir" /\ livefs[2] = "dir" /\ livefs[3] = "reg"
    /\ livefs[4] = "lnk_broken" /\ livefs[5] = "reg"
    /\ Len(Items(_queue)) = 2
    /\ Closes(_queue) = 1

\* C9 (as claimed): no descriptor SimpleFileCollector.Collect() enqueues
\* has the path of a symbolic link, the path given as root included.
C9_NoSymlinkEnqueued ==
    FileRun =>
        \A i \in 1..Len(Items(_queue)) : ~islink(Items(_queue)[i].file_path)

\* C10 (as claimed): an entry of the main volume whose metadata cannot be
\* read is skipped, wherever it stands in its directory: Collect() returns
\* normally and the queue holds what the walk of the other entries yields.
C10_UnreadableEntrySkipped ==
    (ImageRun /\ CollectOver /\ image.badPos # 0
        /\ GetVssStores(image.N) = <<>>)
    => /\ exc = "none"
       /\ Items(_queue) = MainWalkItems

\* The calls of fscache.Open for a snapshot store, in order.
StoreOpens ==
    SelectSeq(ext, LAMBDA c : c.call = "Open" /\ c.store_nr >= 0)

\* The vss.GetVssStoreCount calls.
CountQueries == SelectSeq(ext, LAMBDA c : c.call = "GetVssStoreCount")

\* C11: when the main volume cannot be opened, Collect() enqueues nothing,
\* opens no snapshot store and returns normally, and a Run() around it
\* closes the queue.
C11_UnreadableVolumeYieldsNothing ==
    (ImageRun /\ CollectOver /\ -1 \in image.unreadable)
    => /\ Items(_queue) = <<>>
       /\ StoreOpens = <<>>
       /\ opened = <<>>
       /\ exc = "none"
       /\ RunOver => Closes(_queue) = 1

\* Run() on an image with snapshot stores whose main volume cannot be
\* opened is over, and the queue is closed.
C11_Witness ==
    /\ ImageRun
    /\ -1 \in image.unreadable
    /\ _vss
    /\ image.N >= 1
    /\ RunOver
    /\ Closes(_queue) = 1
    /\ Len(ext) >= 1

\* C12 (as claimed): when a snapshot store cannot be opened, Collect()
\* still opens every store it selected, enqueues nothing for the store that
\* failed, and returns normally.
C12_UnreadableStoreSkipped ==
    (ImageRun /\ CollectOver /\ _vss /\ -1 \notin image.unreadable
        /\ image.unreadable # {})
    => /\ exc = "none"
       /\ [i \in 1..Len(StoreOpens) |-> StoreOpens[i].store_nr]
              = GetVssStores(image.N)
       /\ \A i \in 1..Len(Items(_queue)) :
              Items(_queue)[i].type = "VSS"
              => Items(_queue)[i].vss_store_number \notin image.unreadable

StrictlyAscending(seq) ==
    \A i, j \in 1..Len(seq) : i < j => seq[i] < seq[j]

\* C13 (as claimed): the stores GetVssStores selects from an explicit list,
\* which the loop of Collect() goes through in the order of the selection,
\* stand in strictly ascending order of store number, none of them twice.
C13_SelectedStoresAscend ==
    (ImageRun /\ pc = "GetVss" /\ _vss /\ _vss_stores # <<>>)
    => StrictlyAscending(GetVssStores(image.N))

\* C14 (as claimed): the walk of a volume returns whatever its directory
\* entries refer to, a directory above the one that lists them included: it
\* never descends until the recursion limit of the interpreter ends it.
C14_WalkReturns ==
    ImageRun => exc # "RuntimeError"

\* C15 (as claimed): whatever the caller combines of Run(), Close() and a
\* with block, the queue receives one close signal, never a second one.
C15_ClosedOnce ==
    /\ Closes(_queue) <= 1
    /\ (pc = "exited" /\ exc = "none") => Closes(_queue) = 1

\* The offset the claim names: the byte offset when one is given, 512
\* times the sector offset otherwise.
EffectiveOffset ==
    IF _offset_bytes # 0 THEN _offset_bytes ELSE _offset * 512

C17_MainWalkBeforeSnapshots ==
    ImageRun
    => /\ \A i \in 1..Len(ext) :
              (\/ ext[i].call = "GetVssStoreCount"
               \/ ext[i].call = "Open" /\ ext[i].store_nr >= 0)
              => \A j \in 1..Len(_queue) :
                     (_queue[j].op = "Queue" /\ _queue[j].item.type = "TSK")
                     => j <= ext[i].at
       /\ (CollectOver /\ CountQueries # <<>>)
              => Items(_queue) = MainWalkItems

\* The number of stores was asked for after descriptors of the main volume
\* were enqueued, and a store was opened and contributed a descriptor.
C17_Witness ==
    /\ ImageRun
    /\ \E i \in 1..Len(CountQueries) : CountQueries[i].at >= 2
    /\ StoreOpens # <<>>
    /\ \E i \in 1..Len(Items(_queue)) : Items(_queue)[i].type = "TSK"
    /\ \E i \in 1..Len(Items(_queue)) : Items(_queue)[i].type = "VSS"

\* C18 (as claimed): no directory is opened more than twice, and when both
\* opens of a directory of the main volume fail, nothing of it or below it
\* is enqueued, the other directories are walked, and Collect() returns
\* normally.
C18_TwiceFailedAbandoned ==
    (ImageRun /\ CollectOver /\ Abandoned # {})
    => /\ \A d \in DOMAIN walk.nfail : walk.nfail[d] <= 2
       /\ Abandoned \cap walk.listed = {}
       /\ Items(_queue) = MainWalkItems
       /\ exc = "none"

\* The inodes of the directories of an image.
Directories == {RootInum, 6, 9, 10, 15}

\* The directory entries of volume v of the image.
Entries(v) ==
    UNION {Range(Listing(image, v, d)) : d \in Directories}

\* An entry the walk is to look at: named, allocated, and neither ".",
\* ".." nor the orphan files pseudo-entry.
Admissible(e) ==
    /\ e.named
    /\ e.flags # "UNALLOC"
    /\ e.name \notin {".", "..", "$OrphanFiles"}

Last(seq) == seq[Len(seq)]

\* C19: every descriptor the walks enqueue is that of a named, allocated
\* entry of regular-file type not called ".", ".." or "$OrphanFiles", and
\* every directory ParseImageDir is called on is the root or such an entry
\* of directory type.
C19_OnlyAdmissibleEntries ==
    ImageRun
    => /\ \A i \in 1..Len(Items(_queue)) :
              LET item == Items(_queue)[i]
                  v == IF item.type = "VSS" THEN item.vss_store_number
                       ELSE -1
              IN  \E e \in Entries(v) :
                      /\ Admissible(e)
                      /\ e.type = "REG"
                      /\ e.addr = item.image_inode
                      /\ e.name = Last(item.file_path)
       /\ \A p \in walk.paths :
              \/ p = <<SEP>>
              \/ \E e \in Entries(fs.store_nr) :
                     /\ Admissible(e)
                     /\ e.type = "DIR"
                     /\ e.name = Last(p)

\* The walk of the main volume is over: it listed the root, /d and /g, whose
\* entries include every kind the walk passes over, and nothing else.
C19_Witness ==
    /\ ImageRun
    /\ pc = "GetVss"
    /\ image.badPos = 0
    /\ walk.listed = {RootInum, 6, 9}
    /\ Len(Items(_queue)) >= 2

TargetedRun == class = "TargetedImageCollector"

\* The filter output of the stores of a list, one after the other.
RECURSIVE StoresOutput(_)
StoresOutput(stores) ==
    IF stores = <<>> THEN <<>>
    ELSE GetPathSpecs(VSSFileCollector(ImagePath, Head(stores),
                                       EffectiveOffset))
         \o StoresOutput(Tail(stores))

\* C20 (as claimed): with snapshot collection enabled,
\* TargetedImageCollector.Collect() returns with the queue holding the
\* filter output of the main volume followed by that of every selected
\* store, in order, every descriptor once per store that produced it.
C20_TargetedConcatenation ==
    (TargetedRun /\ CollectOver /\ _vss)
    => /\ exc = "none"
       /\ Items(_queue) =
              GetPathSpecs(TSKFileCollector(ImagePath, EffectiveOffset))
              \o StoresOutput(GetVssStores(image.N))

\* The (inode, fingerprint) pairs the hash table holds.
TablePairs(hl) ==
    UNION {{<<inode, hl[inode][k]>> : k \in 1..Len(hl[inode])} :
              inode \in DOMAIN hl}

\* The entries of the history that were enqueued, in order.
QueuedEntries == SelectSeq(reached, LAMBDA e : e.queued)

\* Every fingerprint list of the table before the step is a prefix of the
\* list of the same inode after the step.
TableGrows(before, after) ==
    \A inode \in DOMAIN before :
        /\ inode \in DOMAIN after
        /\ Len(before[inode]) <= Len(after[inode])
        /\ SubSeq(after[inode], 1, Len(before[inode])) = before[inode]

\* The descriptors in the queue and the pairs in the table correspond one
\* to one: the k-th descriptor is that of the k-th enqueued entry, the
\* pairs of the enqueued entries are all different, and they are the pairs
\* of the table, which holds none twice.
TableMatchesQueue ==
    LET pair(e) == <<e.inode, CalculateNTFSTimeHash(e.meta)>>
        pairs == [k \in 1..Len(QueuedEntries) |-> pair(QueuedEntries[k])]
    IN  /\ Len(Items(_queue)) = Len(QueuedEntries)
        /\ \A k \in 1..Len(QueuedEntries) :
               /\ Items(_queue)[k].image_inode = QueuedEntries[k].inode
               /\ Items(_queue)[k].file_path = QueuedEntries[k].path
        /\ NoDuplicates(pairs)
        /\ Range(pairs) = TablePairs(_hashlist)
        /\ \A inode \in DOMAIN _hashlist : NoDuplicates(_hashlist[inode])
        /\ Cardinality(TablePairs(_hashlist)) = Len(Items(_queue))

\* C21: with snapshot collection enabled, no step takes a fingerprint out
\* of the hash table; at every point the descriptors enqueued so far and
\* the (inode, fingerprint) pairs of the table correspond one to one, so no
\* two descriptors share inode and fingerprint; and every inode reached as
\* a regular file has a descriptor in the queue.
C21_TableMirrorsQueue ==
    /\ [](ImageRun /\ _vss
            => /\ TableMatchesQueue
               /\ \A k \in 1..Len(reached) :
                      \E i \in 1..Len(Items(_queue)) :
                          Items(_queue)[i].image_inode = reached[k].inode)
    /\ [][ImageRun /\ _vss => TableGrows(_hashlist, _hashlist')]_vars

\* The table holds two fingerprints of one inode, an entry was passed over
\* as seen before, and descriptors of the main volume and of a store are in
\* the queue.
C21_Witness ==
    /\ ImageRun
    /\ _vss
    /\ \E inode \in DOMAIN _hashlist : Len(_hashlist[inode]) >= 2
    /\ \E k \in 1..Len(reached) : ~reached[k].queued
    /\ \E i \in 1..Len(Items(_queue)) : Items(_queue)[i].type = "TSK"
    /\ \E i \in 1..Len(Items(_queue)) : Items(_queue)[i].type = "VSS"

====
